---- MODULE Spec2Model ----
(***************************************************************************)
(* Rule matching and action application of chaos-tproxy                    *)
(* (src/src/handler.rs): the selector predicates, the three URI rewrite    *)
(* functions and the two action applicators.                               *)
(*                                                                         *)
(* A string is a sequence of one-character strings: "/a?x" is              *)
(* <<"/", "a", "?", "x">>.  An Option is a sequence of length 0 (None) or  *)
(* 1 (Some).  A byte outside printable ASCII is the one token "%HH"        *)
(* (upper-case hex), so a character outside ASCII is the sequence of the   *)
(* tokens of its UTF-8 bytes; the backslash and the backtick are the       *)
(* tokens "bslash" and "btick".                                            *)
(***************************************************************************)
EXTENDS Integers, Sequences, FiniteSets, TLC

VARIABLES
    uri,        \* SpecUri: the Uri the rewrite functions work on
    last,       \* SpecUri: the last rewrite call: op, input, uri before, ok
    nops,       \* SpecUri: number of rewrite calls made so far
    target,     \* Spec: "request" (apply_request_action) or "response"
    actions,    \* Spec: the Actions value of the matched rule
    request,    \* Spec: the request owned by apply_request_action
    response,   \* Spec: the response owned by apply_response_action
    pc,         \* Spec: position inside the async fn
    steps,      \* Spec: the steps performed so far, in order: <<name, ok>>
    result,     \* Spec: "pending", "ok", "abort", "invalid_uri", "cancelled"
    slept,      \* Spec: None, or Some(the request and response as they were
                \*       when sleep(delay) began)
    given,      \* Spec: the request and response as they were passed in
    sel,        \* SpecSel: the Selector and the exchange it is tested on
    matched     \* SpecSel: <<>> or <<function name, the bool returned>>

vars == <<uri, last, nops, target, actions, request, response, pc, steps,
          result, slept, given, sel, matched>>

uriVars == <<uri, last, nops>>
applyVars == <<target, actions, request, response, pc, steps, result, slept,
               given>>
selVars == <<sel, matched>>

None == <<>>
Some(x) == <<x>>
IsSome(o) == Len(o) = 1
Unwrap(o) == o[1]

\* ------------------------------------------------------------------------
\* Bounds of the model
MaxOps == 1      \* rewrite calls chained on one uri in SpecUri
MaxHdr == 2      \* entries of a header map given as input
MaxPairs == 1    \* key=value pairs of an override map given as input

\* ------------------------------------------------------------------------
\* Characters

Printable ==
    <<" ", "!", "\"", "#", "$", "%", "&", "'", "(", ")", "*", "+", ",", "-",
      ".", "/", "0", "1", "2", "3", "4", "5", "6", "7", "8", "9", ":", ";",
      "<", "=", ">", "?", "@", "A", "B", "C", "D", "E", "F", "G", "H", "I",
      "J", "K", "L", "M", "N", "O", "P", "Q", "R", "S", "T", "U", "V", "W",
      "X", "Y", "Z", "[", "bslash", "]", "^", "_", "btick", "a", "b", "c", "d", "e",
      "f", "g", "h", "i", "j", "k", "l", "m", "n", "o", "p", "q", "r", "s",
      "t", "u", "v", "w", "x", "y", "z", "{", "|", "}", "~">>

HexDigits == <<"0", "1", "2", "3", "4", "5", "6", "7", "8", "9",
               "A", "B", "C", "D", "E", "F">>

HexLower == <<"0", "1", "2", "3", "4", "5", "6", "7", "8", "9",
              "a", "b", "c", "d", "e", "f">>

PrintableSet == {Printable[i] : i \in 1..Len(Printable)}

CodeTable ==
    [c \in PrintableSet |-> 31 + (CHOOSE i \in 1..Len(Printable) : Printable[i] = c)]

HexTable ==
    [c \in {HexDigits[i] : i \in 1..16} \cup {HexLower[i] : i \in 1..16} |->
        (CHOOSE i \in 1..16 : HexDigits[i] = c \/ HexLower[i] = c) - 1]

\* The byte of a character; 0 for a raw-byte token.
Code(c) == IF c \in PrintableSet THEN CodeTable[c] ELSE 0

\* char::to_digit(16): the digit's value, or -1.
HexVal(c) == IF c \in DOMAIN HexTable THEN HexTable[c] ELSE -1

\* The character of a byte: itself when printable ASCII, else the token "%HH".
ByteChar(b) ==
    IF b >= 32 /\ b <= 126 THEN Printable[b - 31]
    ELSE "%" \o HexDigits[(b \div 16) + 1] \o HexDigits[(b % 16) + 1]

\* The byte of a character or raw-byte token.
ByteOf(c) ==
    IF Code(c) # 0 THEN Code(c)
    ELSE CHOOSE b \in (0..31) \cup (127..255) : ByteChar(b) = c

\* First index i >= from with s[i] = c, or 0.
RECURSIVE IndexOf(_, _, _)
IndexOf(s, c, from) ==
    IF from > Len(s) THEN 0
    ELSE IF s[from] = c THEN from
    ELSE IndexOf(s, c, from + 1)

IsPrefix(p, s) == Len(p) <= Len(s) /\ SubSeq(s, 1, Len(p)) = p

\* ------------------------------------------------------------------------
\* http::uri::PathAndQuery and http::Uri, as handler.rs uses them

\* Bytes PathAndQuery::from_shared accepts unescaped in the path.
PathByteOk(c) ==
    LET b == Code(c) IN
    \/ b = 33 \/ (b >= 36 /\ b <= 59) \/ b = 61 \/ (b >= 64 /\ b <= 95)
    \/ (b >= 97 /\ b <= 122) \/ b = 124 \/ b = 126
    \/ b = 34 \/ b = 123 \/ b = 125

\* Bytes PathAndQuery::from_shared accepts in the query.
QueryByteOk(c) ==
    LET b == Code(c) IN
    b = 33 \/ (b >= 36 /\ b <= 59) \/ b = 61 \/ (b >= 63 /\ b <= 126)

\* The first byte at or after from that ends the scan of the path: '?', '#'
\* or a byte the path may not hold; 0 when there is none.
RECURSIVE PathStop(_, _)
PathStop(s, from) ==
    IF from > Len(s) THEN 0
    ELSE IF s[from] = "?" \/ s[from] = "#" \/ ~PathByteOk(s[from]) THEN from
    ELSE PathStop(s, from + 1)

\* The same for the query: '#' or a byte the query may not hold.
RECURSIVE QueryStop(_, _)
QueryStop(s, from) ==
    IF from > Len(s) THEN 0
    ELSE IF s[from] = "#" \/ ~QueryByteOk(s[from]) THEN from
    ELSE QueryStop(s, from + 1)

\* A PathAndQuery: its bytes and the position of its '?' (0: no query).
Paq(data, query) == [data |-> data, query |-> query]

EmptyPaq == Paq(<<>>, 0)

\* str::parse::<PathAndQuery>(): the path up to '?', then the query; a '#'
\* ends the scan and everything from it on is dropped; any other byte
\* outside the accepted sets is InvalidUriChar.
ParsePaq(s) ==
    LET p == PathStop(s, 1) IN
    IF p = 0 THEN [ok |-> TRUE, paq |-> Paq(s, 0)]
    ELSE IF s[p] = "#" THEN [ok |-> TRUE, paq |-> Paq(SubSeq(s, 1, p - 1), 0)]
    ELSE IF s[p] # "?" THEN [ok |-> FALSE, paq |-> EmptyPaq]
    ELSE LET q == QueryStop(s, p + 1) IN
         IF q = 0 THEN [ok |-> TRUE, paq |-> Paq(s, p)]
         ELSE IF s[q] = "#" THEN [ok |-> TRUE, paq |-> Paq(SubSeq(s, 1, q - 1), p)]
         ELSE [ok |-> FALSE, paq |-> EmptyPaq]

\* PathAndQuery::path(): the bytes before '?', "/" when there are none.
PaqPath(p) ==
    LET ret == IF p.query = 0 THEN p.data ELSE SubSeq(p.data, 1, p.query - 1) IN
    IF ret = <<>> THEN <<"/">> ELSE ret

\* PathAndQuery::query(): Some(bytes after '?') or None.
PaqQuery(p) ==
    IF p.query = 0 THEN None
    ELSE Some(SubSeq(p.data, p.query + 1, Len(p.data)))

\* Display of a PathAndQuery, as format!("{}", old) prints it.
PaqDisplay(p) ==
    IF p.data = <<>> THEN <<"/">>
    ELSE IF p.data[1] = "/" \/ p.data[1] = "*" THEN p.data
    ELSE <<"/">> \o p.data

\* A Uri: scheme and authority (<<>>: none) and its PathAndQuery.
MkUri(scheme, authority, paq) ==
    [scheme |-> scheme, authority |-> authority, paq |-> paq]

\* Uri::has_path()
HasPath(u) == u.paq.data # <<>> \/ u.scheme # <<>>

\* Uri::path()
UriPath(u) == IF HasPath(u) THEN PaqPath(u.paq) ELSE <<>>

\* Uri::query()
UriQuery(u) == PaqQuery(u.paq)

\* uri.clone().into_parts()
IntoParts(u) ==
    [scheme |-> IF u.scheme = <<>> THEN None ELSE Some(u.scheme),
     authority |-> IF u.authority = <<>> THEN None ELSE Some(u.authority),
     path_and_query |-> IF HasPath(u) THEN Some(u.paq) ELSE None]

\* Uri::from_parts(parts): a scheme needs an authority and a path, and an
\* authority with a path needs a scheme.
FromParts(parts) ==
    LET u == MkUri(IF IsSome(parts.scheme) THEN Unwrap(parts.scheme) ELSE <<>>,
                   IF IsSome(parts.authority) THEN Unwrap(parts.authority) ELSE <<>>,
                   IF IsSome(parts.path_and_query)
                   THEN Unwrap(parts.path_and_query) ELSE EmptyPaq)
        bad == IF IsSome(parts.scheme)
               THEN ~IsSome(parts.authority) \/ ~IsSome(parts.path_and_query)
               ELSE IsSome(parts.authority) /\ IsSome(parts.path_and_query)
    IN [ok |-> ~bad, uri |-> u]

\* uri.to_string()
UriToString(u) ==
    (IF u.scheme # <<>> THEN u.scheme \o <<":", "/", "/">> ELSE <<>>)
    \o u.authority
    \o UriPath(u)
    \o (IF IsSome(UriQuery(u)) THEN <<"?">> \o Unwrap(UriQuery(u)) ELSE <<>>)

\* ------------------------------------------------------------------------
\* serde_urlencoded, as replace_queries uses it

\* s split at every c: the segments, empty ones included.
RECURSIVE Split(_, _)
Split(s, c) ==
    LET i == IndexOf(s, c, 1) IN
    IF i = 0 THEN <<s>>
    ELSE <<SubSeq(s, 1, i - 1)>> \o Split(SubSeq(s, i + 1, Len(s)), c)

\* replace_plus and percent_decode: '+' is a space, %HH is the byte HH, and
\* a '%' not followed by two hex digits stands for itself.  The result is a
\* byte string, not yet text.
RECURSIVE PercentDecode(_)
PercentDecode(s) ==
    IF s = <<>> THEN <<>>
    ELSE IF s[1] = "+" THEN <<" ">> \o PercentDecode(Tail(s))
    ELSE IF s[1] = "%" /\ Len(s) >= 3 /\ HexVal(s[2]) >= 0 /\ HexVal(s[3]) >= 0
    THEN <<ByteChar(16 * HexVal(s[2]) + HexVal(s[3]))>>
         \o PercentDecode(SubSeq(s, 4, Len(s)))
    ELSE <<s[1]>> \o PercentDecode(Tail(s))

\* U+FFFD REPLACEMENT CHARACTER, in UTF-8.
Replacement == <<"%EF", "%BF", "%BD">>

\* The byte at i, 0 past the end.
SafeGet(bs, i) == IF i <= Len(bs) THEN ByteOf(bs[i]) ELSE 0

\* A UTF-8 continuation byte.
IsCont(b) == b >= 128 /\ b <= 191

\* The length of the sequence a lead byte announces, 0 for a byte that
\* cannot lead.
Utf8CharWidth(b) ==
    IF b < 128 THEN 1
    ELSE IF b >= 194 /\ b <= 223 THEN 2
    ELSE IF b >= 224 /\ b <= 239 THEN 3
    ELSE IF b >= 240 /\ b <= 244 THEN 4
    ELSE 0

\* The second byte a three- or four-byte lead admits.
SecondOk(b, c) ==
    \/ b = 224 /\ c >= 160 /\ c <= 191
    \/ b >= 225 /\ b <= 236 /\ IsCont(c)
    \/ b = 237 /\ c >= 128 /\ c <= 159
    \/ b >= 238 /\ b <= 239 /\ IsCont(c)
    \/ b = 240 /\ c >= 144 /\ c <= 191
    \/ b >= 241 /\ b <= 243 /\ IsCont(c)
    \/ b = 244 /\ c >= 128 /\ c <= 143

\* The sequence that starts at i: the bytes it takes, and whether they are
\* one well-formed character.  An ill-formed sequence takes the longest
\* prefix that could still begin a character.
ScanChar(bs, i) ==
    LET b == ByteOf(bs[i])
        w == Utf8CharWidth(b)
        b1 == SafeGet(bs, i + 1)
        b2 == SafeGet(bs, i + 2)
        b3 == SafeGet(bs, i + 3)
    IN IF w = 1 THEN [len |-> 1, ok |-> TRUE]
       ELSE IF w = 0 THEN [len |-> 1, ok |-> FALSE]
       ELSE IF w = 2
       THEN (IF IsCont(b1) THEN [len |-> 2, ok |-> TRUE]
             ELSE [len |-> 1, ok |-> FALSE])
       ELSE IF ~SecondOk(b, b1) THEN [len |-> 1, ok |-> FALSE]
       ELSE IF ~IsCont(b2) THEN [len |-> 2, ok |-> FALSE]
       ELSE IF w = 3 THEN [len |-> 3, ok |-> TRUE]
       ELSE IF ~IsCont(b3) THEN [len |-> 3, ok |-> FALSE]
       ELSE [len |-> 4, ok |-> TRUE]

\* String::from_utf8_lossy: well-formed characters stay, every ill-formed
\* sequence becomes one U+FFFD.
RECURSIVE Utf8Lossy(_, _)
Utf8Lossy(bs, i) ==
    IF i > Len(bs) THEN <<>>
    ELSE LET c == ScanChar(bs, i) IN
         (IF c.ok THEN SubSeq(bs, i, i + c.len - 1) ELSE Replacement)
         \o Utf8Lossy(bs, i + c.len)

\* form_urlencoded's decode: the percent-decoded bytes, read as UTF-8 with
\* ill-formed sequences replaced.
Decode(s) == Utf8Lossy(PercentDecode(s), 1)

\* form_urlencoded::byte_serialize: * - . _ and alphanumerics stay, a space
\* becomes '+', every other byte becomes %HH.
ByteSerialize(c) ==
    LET b == ByteOf(c) IN
    IF \/ b = 42 \/ b = 45 \/ b = 46 \/ b = 95
       \/ (b >= 48 /\ b <= 57) \/ (b >= 65 /\ b <= 90) \/ (b >= 97 /\ b <= 122)
    THEN <<c>>
    ELSE IF b = 32 THEN <<"+">>
    ELSE <<"%", HexDigits[(b \div 16) + 1], HexDigits[(b % 16) + 1]>>

RECURSIVE Encode(_)
Encode(s) == IF s = <<>> THEN <<>> ELSE ByteSerialize(s[1]) \o Encode(Tail(s))

\* form_urlencoded::parse: the decoded (name, value) pairs of a query, in
\* order; empty segments are skipped and a segment without '=' has value "".
RECURSIVE ParsePairs(_)
ParsePairs(segs) ==
    IF segs = <<>> THEN <<>>
    ELSE LET seg == segs[1]
             e == IndexOf(seg, "=", 1)
             name == IF e = 0 THEN seg ELSE SubSeq(seg, 1, e - 1)
             value == IF e = 0 THEN <<>> ELSE SubSeq(seg, e + 1, Len(seg))
         IN (IF seg = <<>> THEN <<>> ELSE << <<Decode(name), Decode(value)>> >>)
            \o ParsePairs(Tail(segs))

FormParse(q) == ParsePairs(Split(q, "&"))

\* A merge in which a key already in the map keeps its value.
ExtendKeepOld(m, qs) ==
    [k \in (DOMAIN m) \cup (DOMAIN qs) |-> IF k \in DOMAIN m THEN m[k] ELSE qs[k]]

\* HashMap::extend: every key of qs is set to its value in qs.
Extend(m, qs) ==
    [k \in (DOMAIN m) \cup (DOMAIN qs) |-> IF k \in DOMAIN qs THEN qs[k] ELSE m[k]]

EmptyMap == [k \in {} |-> <<>>]

\* serde_urlencoded::from_str::<HashMap<String, String>>: the pairs inserted
\* one after the other, so the last value of a repeated key stays.
RECURSIVE CollectMap(_, _)
CollectMap(pairs, m) ==
    IF pairs = <<>> THEN m
    ELSE CollectMap(Tail(pairs),
                    Extend(m, [k \in {pairs[1][1]} |-> pairs[1][2]]))

FromStr(q) == CollectMap(FormParse(q), EmptyMap)

\* The orders a HashMap<String, String> may be iterated in: std's hasher
\* is randomly seeded, so every order of the keys is possible.
IterOrders(m) ==
    LET n == Cardinality(DOMAIN m) IN
    {o \in [1..n -> DOMAIN m] : \A i, j \in 1..n : i # j => o[i] # o[j]}

\* serde_urlencoded::to_string(&map), the map iterated in order o.
RECURSIVE ToStringFrom(_, _, _)
ToStringFrom(m, o, i) ==
    IF i > Len(o) THEN <<>>
    ELSE (IF i > 1 THEN <<"&">> ELSE <<>>)
         \o Encode(o[i]) \o <<"=">> \o Encode(m[o[i]])
         \o ToStringFrom(m, o, i + 1)

\* The pairs written as they are, without form-urlencoding them.
RECURSIVE RawStringFrom(_, _, _)
RawStringFrom(m, o, i) ==
    IF i > Len(o) THEN <<>>
    ELSE (IF i > 1 THEN <<"&">> ELSE <<>>)
         \o o[i] \o <<"=">> \o m[o[i]] \o RawStringFrom(m, o, i + 1)

UrlToStringRaw(m, o) == RawStringFrom(m, o, 1)

UrlToString(m, o) == ToStringFrom(m, o, 1)

\* ------------------------------------------------------------------------
\* The URI rewriter.  Each function returns [ok, uri]: the anyhow::Result
\* and the Uri behind the &mut after the call.

\* append_queries storing the new path-and-query in the uri before
\* Uri::from_parts has accepted the parts.
AppendQueriesPartial(u, raw_queries) ==
    LET queries == IF IsSome(raw_queries) THEN Unwrap(raw_queries) ELSE <<>> IN
    IF queries = <<>> THEN [ok |-> TRUE, uri |-> u]
    ELSE
    LET parts == IntoParts(u)
        new == IF IsSome(parts.path_and_query)
               THEN LET old == Unwrap(parts.path_and_query) IN
                    IF IsSome(PaqQuery(old))
                    THEN PaqDisplay(old) \o <<"&">> \o queries
                    ELSE PaqDisplay(old) \o <<"?">> \o queries
               ELSE <<"/", "?">> \o queries
        parsed == ParsePaq(new)
        built == FromParts([parts EXCEPT !.path_and_query = Some(parsed.paq)])
    IN IF ~parsed.ok THEN [ok |-> FALSE, uri |-> u]
       ELSE [ok |-> built.ok, uri |-> built.uri]

\* fn append_queries(uri, raw_queries)
AppendQueries(u, raw_queries) ==
    LET queries == IF IsSome(raw_queries) THEN Unwrap(raw_queries) ELSE <<>> IN
    IF queries = <<>> THEN [ok |-> TRUE, uri |-> u]
    ELSE
    LET parts == IntoParts(u)
        new == IF IsSome(parts.path_and_query)
               THEN LET old == Unwrap(parts.path_and_query) IN
                    IF IsSome(PaqQuery(old))
                    THEN PaqDisplay(old) \o <<"&">> \o queries
                    ELSE PaqDisplay(old) \o <<"?">> \o queries
               ELSE <<"/", "?">> \o queries
        parsed == ParsePaq(new)
        built == FromParts([parts EXCEPT !.path_and_query = Some(parsed.paq)])
    IN IF ~parsed.ok THEN [ok |-> FALSE, uri |-> u]
       ELSE IF ~built.ok THEN [ok |-> FALSE, uri |-> u]
       ELSE [ok |-> TRUE, uri |-> built.uri]

\* fn replace_path(uri, raw_path)
ReplacePath(u, raw_path) ==
    IF ~IsSome(raw_path) THEN [ok |-> TRUE, uri |-> u]
    ELSE
    LET path == IF Unwrap(raw_path) = <<>> THEN <<"/">> ELSE Unwrap(raw_path)
        parts == IntoParts(u)
        hasPaq == IsSome(parts.path_and_query)
        paq == Unwrap(parts.path_and_query)
        parsed == IF ~hasPaq THEN [ok |-> TRUE, paq |-> EmptyPaq]
                  ELSE IF IsSome(PaqQuery(paq))
                  THEN ParsePaq(path \o <<"?">> \o Unwrap(PaqQuery(paq)))
                  ELSE ParsePaq(path)
        built == FromParts(IF hasPaq
                           THEN [parts EXCEPT !.path_and_query = Some(parsed.paq)]
                           ELSE parts)
    IN IF ~parsed.ok THEN [ok |-> FALSE, uri |-> u]
       ELSE IF ~built.ok THEN [ok |-> FALSE, uri |-> u]
       ELSE [ok |-> TRUE, uri |-> built.uri]

\* fn replace_queries(uri, queries); order is the order in which
\* serde_urlencoded::to_string finds the merged HashMap iterated.
ReplaceQueries(u, queries, order) ==
    IF ~IsSome(queries) THEN [ok |-> TRUE, uri |-> u]
    ELSE
    LET qs == Unwrap(queries)
        parts == IntoParts(u)
        old_query == IF IsSome(parts.path_and_query)
                        /\ IsSome(PaqQuery(Unwrap(parts.path_and_query)))
                     THEN Unwrap(PaqQuery(Unwrap(parts.path_and_query)))
                     ELSE <<>>
        query_map == Extend(FromStr(old_query), qs)
        path == IF IsSome(parts.path_and_query)
                THEN PaqPath(Unwrap(parts.path_and_query))
                ELSE <<"/">>
        q == UrlToString(query_map, order)
        parsed == IF q = <<>> THEN ParsePaq(path)
                  ELSE ParsePaq(path \o <<"?">> \o q)
        built == FromParts([parts EXCEPT !.path_and_query = Some(parsed.paq)])
    IN IF ~parsed.ok THEN [ok |-> FALSE, uri |-> u]
       ELSE IF ~built.ok THEN [ok |-> FALSE, uri |-> u]
       ELSE [ok |-> TRUE, uri |-> built.uri]

\* ------------------------------------------------------------------------
\* http::HeaderMap: the (name, value) entries in iteration order, the
\* occurrences of one name next to each other

HasName(h, k) == \E i \in 1..Len(h) : h[i][1] = k

\* HeaderMap::get_all(k): the values of k, in order.
RECURSIVE GetAll(_, _)
GetAll(h, k) ==
    IF h = <<>> THEN <<>>
    ELSE (IF h[1][1] = k THEN <<h[1][2]>> ELSE <<>>) \o GetAll(Tail(h), k)

\* HeaderMap::append(k, v): one more occurrence of k, after those it has.
HAppend(h, k, v) ==
    IF HasName(h, k)
    THEN LET l == CHOOSE i \in 1..Len(h) :
                      h[i][1] = k /\ \A j \in (i + 1)..Len(h) : h[j][1] # k
         IN SubSeq(h, 1, l) \o << <<k, v>> >> \o SubSeq(h, l + 1, Len(h))
    ELSE Append(h, <<k, v>>)

\* An insert that sets the first value of k and leaves its other values.
HInsertFirstOnly(h, k, v) ==
    IF HasName(h, k)
    THEN LET f == CHOOSE i \in 1..Len(h) :
                      h[i][1] = k /\ \A j \in 1..(i - 1) : h[j][1] # k
         IN [h EXCEPT ![f] = <<k, v>>]
    ELSE Append(h, <<k, v>>)

\* HeaderMap::insert(k, v): v becomes the only value of k.
HInsert(h, k, v) ==
    IF HasName(h, k)
    THEN LET f == CHOOSE i \in 1..Len(h) :
                      h[i][1] = k /\ \A j \in 1..(i - 1) : h[j][1] # k
         IN SubSeq(h, 1, f - 1) \o << <<k, v>> >>
            \o SelectSeq(SubSeq(h, f + 1, Len(h)), LAMBDA e : e[1] # k)
    ELSE Append(h, <<k, v>>)

\* for (key, value) in hdrs { headers.append(key, value.clone()) }
RECURSIVE AppendAll(_, _)
AppendAll(h, hdrs) ==
    IF hdrs = <<>> THEN h
    ELSE AppendAll(HAppend(h, hdrs[1][1], hdrs[1][2]), Tail(hdrs))

\* for (key, value) in hdrs { headers.insert(key, value.clone()) }
RECURSIVE InsertAll(_, _)
InsertAll(h, hdrs) ==
    IF hdrs = <<>> THEN h
    ELSE InsertAll(HInsert(h, hdrs[1][1], hdrs[1][2]), Tail(hdrs))

\* ------------------------------------------------------------------------
\* SpecUri: the rewrite functions applied, one call after the other, to a
\* request uri

\* A request uri in origin form: the path-and-query of the request line.
OriginForm(s) == MkUri(<<>>, <<>>, ParsePaq(s).paq)

\* The uris a request can carry: origin form, "*", authority form (CONNECT)
\* and absolute form with an empty path.
UriInputs ==
    { OriginForm(<<"/">>),
      OriginForm(<<"/", "a", "?", "f", "=", "1", "&", "o", "=", "2">>),
      OriginForm(<<"/", "a", "?", "f", "=", "1", "&", "o", "=", "2", "&", "f", "=", "3">>),
      OriginForm(<<"/", "a", "?", "f", "&", "&", "o", "=", "2">>),
      OriginForm(<<"*">>),
      OriginForm(<<"/", "b", "?", "k", "+", "=", "%", "2", "f">>),
      OriginForm(<<"/", "a", "?">>),
      OriginForm(<<"/", "a", "?", "k", "=", "%", "f", "f">>),
      OriginForm(<<"/", "a", "?", "%", "f", "f", "=", "1", "&", "%", "f", "e", "=", "2">>),
      MkUri(<<>>, <<"h">>, EmptyPaq),
      MkUri(<<"h", "t", "t", "p">>, <<"h">>, EmptyPaq) }

\* AppendAction.queries
FragmentInputs ==
    { None,
      Some(<<>>),
      Some(<<"c", "=", "3">>),
      Some(<<"f", "=", "9", "&", "c">>),
      Some(<<"c", " ", "3">>),
      Some(<<"c", "#", "3">>) }

\* ReplaceAction.path
PathInputs ==
    { None,
      Some(<<>>),
      Some(<<"/", "b">>),
      Some(<<"b">>),
      Some(<<"/", "b", " ", "c">>),
      Some(<<"/", "b", "?", "x">>),
      Some(<<"/", "b", "#", "x">>) }

QueryKeys == { <<"f">>, <<"k", " ">> }
QueryValues == { <<"9">>, <<"&">> }

\* The HashMap<String, String> values with at most MaxPairs keys.
QueryMaps ==
    UNION { [ks -> QueryValues] :
            ks \in {x \in SUBSET QueryKeys : Cardinality(x) <= MaxPairs} }

\* ReplaceAction.queries
OverrideInputs == {None} \cup {Some(m) : m \in QueryMaps}

NoCall ==
    [op |-> "none", frag |-> None, path |-> None, queries |-> None,
     order |-> <<>>, before |-> <<>>, ok |-> TRUE]

IdleApply ==
    /\ target = "none"
    /\ actions = <<>>
    /\ request = <<>>
    /\ response = <<>>
    /\ pc = "idle"
    /\ steps = <<>>
    /\ result = "none"
    /\ slept = <<>>
    /\ given = <<>>

IdleUri == uri = <<>> /\ last = NoCall /\ nops = 0

IdleSel == sel = <<>> /\ matched = <<>>

InitUri ==
    /\ uri \in UriInputs
    /\ last = NoCall
    /\ nops = 0
    /\ IdleApply
    /\ IdleSel

CallAppendQueries ==
    /\ nops < MaxOps
    /\ \E q \in FragmentInputs :
          LET r == AppendQueries(uri, q) IN
          /\ uri' = r.uri
          /\ last' = [NoCall EXCEPT !.op = "append_queries", !.frag = q,
                                    !.before = uri, !.ok = r.ok]
    /\ nops' = nops + 1
    /\ UNCHANGED <<applyVars, selVars>>

CallReplacePath ==
    /\ nops < MaxOps
    /\ \E p \in PathInputs :
          LET r == ReplacePath(uri, p) IN
          /\ uri' = r.uri
          /\ last' = [NoCall EXCEPT !.op = "replace_path", !.path = p,
                                    !.before = uri, !.ok = r.ok]
    /\ nops' = nops + 1
    /\ UNCHANGED <<applyVars, selVars>>

\* The merged map replace_queries builds, whose iteration order the call
\* depends on.
QueryMapOf(u, queries) ==
    LET parts == IntoParts(u)
        old_query == IF IsSome(parts.path_and_query)
                        /\ IsSome(PaqQuery(Unwrap(parts.path_and_query)))
                     THEN Unwrap(PaqQuery(Unwrap(parts.path_and_query)))
                     ELSE <<>>
    IN IF IsSome(queries) THEN Extend(FromStr(old_query), Unwrap(queries))
       ELSE EmptyMap

CallReplaceQueries ==
    /\ nops < MaxOps
    /\ \E qs \in OverrideInputs :
       \E o \in IterOrders(QueryMapOf(uri, qs)) :
          LET r == ReplaceQueries(uri, qs, o) IN
          /\ uri' = r.uri
          /\ last' = [NoCall EXCEPT !.op = "replace_queries", !.queries = qs,
                                    !.order = o, !.before = uri, !.ok = r.ok]
    /\ nops' = nops + 1
    /\ UNCHANGED <<applyVars, selVars>>

NextUri == CallAppendQueries \/ CallReplacePath \/ CallReplaceQueries

SpecUri == InitUri /\ [][NextUri]_vars

\* ------------------------------------------------------------------------
\* Spec: apply_request_action and apply_response_action on one exchange

\* apply_request_action sleeping before it mutates the request.
RequestOrderDelayFirst ==
    <<"delay", "append_queries", "append_headers", "replace_path",
      "replace_method", "replace_body", "replace_queries", "replace_headers">>

\* The steps of apply_request_action after the abort check, in source order.
RequestOrder ==
    <<"append_queries", "append_headers", "replace_path", "replace_method",
      "replace_body", "replace_queries", "replace_headers", "delay">>

\* The steps of apply_response_action after the abort check, in source order.
ResponseOrder ==
    <<"append_headers", "replace_code", "replace_body", "replace_headers", "delay">>

\* The step that follows step name in order; "return" after the last one.
After(order, name) ==
    LET i == CHOOSE i \in 1..Len(order) : order[i] = name IN
    IF i = Len(order) THEN "return" ELSE order[i + 1]

\* The abort check made only for a rule that does not delay.
AbortUnlessDelayed(a) == a.abort /\ ~IsSome(a.delay)

\* if actions.abort { return Err(anyhow!("Abort applied")) }
AbortRequested(a) == a.abort

\* The Result of a rewrite call dropped instead of returned.
ErrIgnored(r) == FALSE

\* The ? after a rewrite call: an Err returns from apply_request_action.
IsErr(r) == ~r.ok

HeaderNames == {"x", "y"}
HeaderValues == {"1", "2"}
HeaderEntries == {<<n, v>> : n \in HeaderNames, v \in HeaderValues}

Grouped(h) ==
    \A i, j \in 1..Len(h) :
        (i < j /\ h[i][1] = h[j][1]) => \A m \in i..j : h[m][1] = h[i][1]

\* The HeaderMap values with at most n entries.
HeaderMaps(n) ==
    {h \in UNION {[1..k -> HeaderEntries] : k \in 0..n} : Grouped(h)}

NoAppend == [queries |-> None, headers |-> None]

NoReplace ==
    [path |-> None, method |-> None, body |-> None, code |-> None,
     queries |-> None, headers |-> None]

NoActions == [abort |-> FALSE, delay |-> None, append |-> None, replace |-> None]

\* Actions values with every combination of absent and present fields.
PresenceActions ==
    LET appends == {None} \cup
            {Some([queries |-> q, headers |-> h]) :
                q \in {None, Some(<<"c", "=", "3">>)},
                h \in {None, Some(<< <<"x", "1">> >>)}}
        replaces == {None} \cup
            {Some(r) : r \in
                [path : {None, Some(<<"/", "b">>)},
                 method : {None, Some("POST")},
                 body : {None, Some("new")},
                 code : {None, Some(404)},
                 queries : {None, Some([k \in {<<"f">>} |-> <<"9">>])},
                 headers : {None, Some(<< <<"x", "2">> >>)}]}
    IN [abort : BOOLEAN, delay : {None, Some(5)}, append : appends,
        replace : replaces]

\* Actions values that append and overwrite headers.
HeaderActions ==
    {[NoActions EXCEPT !.append = Some([NoAppend EXCEPT !.headers = Some(a)]),
                       !.replace = Some([NoReplace EXCEPT !.headers = Some(r)])] :
        a \in HeaderMaps(MaxHdr), r \in HeaderMaps(MaxHdr)}

\* Actions values that rewrite the uri.
RewriteActions ==
    {[NoActions EXCEPT !.append = Some([NoAppend EXCEPT !.queries = q]),
                       !.replace = Some([NoReplace EXCEPT !.path = p,
                                                          !.queries = qs])] :
        q \in FragmentInputs, p \in PathInputs, qs \in OverrideInputs}

HeaderInputs ==
    { <<>>,
      << <<"x", "1">> >>,
      << <<"x", "1">>, <<"x", "2">>, <<"y", "1">> >> }

Request0 ==
    [uri |-> OriginForm(<<"/", "a", "?", "f", "=", "1", "&", "o", "=", "2">>),
     method |-> "GET",
     headers |-> << <<"x", "1">>, <<"y", "1">> >>,
     body |-> "body"]

Response0 ==
    [status |-> 200,
     headers |-> << <<"x", "1">>, <<"y", "1">> >>,
     body |-> "body"]

\* The calls made: the function, its Actions and the object passed in.
RequestCalls ==
    {<<a, Request0>> : a \in PresenceActions}
    \cup {<<a, [Request0 EXCEPT !.headers = h]>> :
             a \in HeaderActions, h \in HeaderInputs}
    \cup {<<a, [Request0 EXCEPT !.uri = u]>> :
             a \in RewriteActions, u \in UriInputs}

ResponseCalls ==
    {<<a, Response0>> : a \in PresenceActions}
    \cup {<<a, [Response0 EXCEPT !.headers = h]>> :
             a \in HeaderActions, h \in HeaderInputs}

InitCommon ==
    /\ pc = "start"
    /\ steps = <<>>
    /\ result = "pending"
    /\ slept = None
    /\ given = [request |-> request, response |-> response]
    /\ IdleUri
    /\ IdleSel

InitRequest ==
    /\ target = "request"
    /\ \E c \in RequestCalls : actions = c[1] /\ request = c[2]
    /\ response = <<>>
    /\ InitCommon

InitResponse ==
    /\ target = "response"
    /\ \E c \in ResponseCalls : actions = c[1] /\ response = c[2]
    /\ request = <<>>
    /\ InitCommon

Init == InitRequest \/ InitResponse

Log(name, ok) == Append(steps, <<name, ok>>)

\* --- apply_request_action

ReqStart ==
    /\ target = "request" /\ pc = "start"
    /\ IF AbortRequested(actions)
       THEN pc' = "done" /\ result' = "abort"
       ELSE pc' = RequestOrder[1] /\ result' = result
    /\ UNCHANGED <<target, actions, request, response, steps, slept, given,
                   uriVars, selVars>>

\* append_queries(request.uri_mut(), append.queries.as_ref())?
ReqAppendQueries ==
    /\ target = "request" /\ pc = "append_queries"
    /\ IF IsSome(actions.append)
       THEN LET q == Unwrap(actions.append).queries
                r == AppendQueries(request.uri, q)
            IN /\ request' = [request EXCEPT !.uri = r.uri]
               /\ steps' = IF IsSome(q) THEN Log("append_queries", r.ok) ELSE steps
               /\ IF IsErr(r)
                  THEN pc' = "done" /\ result' = "invalid_uri"
                  ELSE pc' = After(RequestOrder, "append_queries") /\ result' = result
       ELSE /\ pc' = After(RequestOrder, "append_queries")
            /\ UNCHANGED <<request, steps, result>>
    /\ UNCHANGED <<target, actions, response, slept, given, uriVars, selVars>>

ReqAppendHeaders ==
    /\ target = "request" /\ pc = "append_headers"
    /\ IF IsSome(actions.append) /\ IsSome(Unwrap(actions.append).headers)
       THEN /\ request' = [request EXCEPT !.headers =
                   AppendAll(@, Unwrap(Unwrap(actions.append).headers))]
            /\ steps' = Log("append_headers", TRUE)
       ELSE UNCHANGED <<request, steps>>
    /\ pc' = After(RequestOrder, "append_headers")
    /\ UNCHANGED <<target, actions, response, result, slept, given, uriVars,
                   selVars>>

\* replace_path(request.uri_mut(), replace.path.as_ref())?
ReqReplacePath ==
    /\ target = "request" /\ pc = "replace_path"
    /\ IF IsSome(actions.replace)
       THEN LET p == Unwrap(actions.replace).path
                r == ReplacePath(request.uri, p)
            IN /\ request' = [request EXCEPT !.uri = r.uri]
               /\ steps' = IF IsSome(p) THEN Log("replace_path", r.ok) ELSE steps
               /\ IF IsErr(r)
                  THEN pc' = "done" /\ result' = "invalid_uri"
                  ELSE pc' = After(RequestOrder, "replace_path") /\ result' = result
       ELSE /\ pc' = After(RequestOrder, "replace_path")
            /\ UNCHANGED <<request, steps, result>>
    /\ UNCHANGED <<target, actions, response, slept, given, uriVars, selVars>>

ReqReplaceMethod ==
    /\ target = "request" /\ pc = "replace_method"
    /\ IF IsSome(actions.replace) /\ IsSome(Unwrap(actions.replace).method)
       THEN /\ request' = [request EXCEPT !.method =
                   Unwrap(Unwrap(actions.replace).method)]
            /\ steps' = Log("replace_method", TRUE)
       ELSE UNCHANGED <<request, steps>>
    /\ pc' = After(RequestOrder, "replace_method")
    /\ UNCHANGED <<target, actions, response, result, slept, given, uriVars,
                   selVars>>

ReqReplaceBody ==
    /\ target = "request" /\ pc = "replace_body"
    /\ IF IsSome(actions.replace) /\ IsSome(Unwrap(actions.replace).body)
       THEN /\ request' = [request EXCEPT !.body =
                   Unwrap(Unwrap(actions.replace).body)]
            /\ steps' = Log("replace_body", TRUE)
       ELSE UNCHANGED <<request, steps>>
    /\ pc' = After(RequestOrder, "replace_body")
    /\ UNCHANGED <<target, actions, response, result, slept, given, uriVars,
                   selVars>>

\* replace_queries(request.uri_mut(), replace.queries.as_ref())?
ReqReplaceQueries ==
    /\ target = "request" /\ pc = "replace_queries"
    /\ IF IsSome(actions.replace)
       THEN LET qs == Unwrap(actions.replace).queries IN
            \E o \in IterOrders(QueryMapOf(request.uri, qs)) :
               LET r == ReplaceQueries(request.uri, qs, o) IN
               /\ request' = [request EXCEPT !.uri = r.uri]
               /\ steps' = IF IsSome(qs) THEN Log("replace_queries", r.ok) ELSE steps
               /\ IF IsErr(r)
                  THEN pc' = "done" /\ result' = "invalid_uri"
                  ELSE pc' = After(RequestOrder, "replace_queries") /\ result' = result
       ELSE /\ pc' = After(RequestOrder, "replace_queries")
            /\ UNCHANGED <<request, steps, result>>
    /\ UNCHANGED <<target, actions, response, slept, given, uriVars, selVars>>

ReqReplaceHeaders ==
    /\ target = "request" /\ pc = "replace_headers"
    /\ IF IsSome(actions.replace) /\ IsSome(Unwrap(actions.replace).headers)
       THEN /\ request' = [request EXCEPT !.headers =
                   InsertAll(@, Unwrap(Unwrap(actions.replace).headers))]
            /\ steps' = Log("replace_headers", TRUE)
       ELSE UNCHANGED <<request, steps>>
    /\ pc' = After(RequestOrder, "replace_headers")
    /\ UNCHANGED <<target, actions, response, result, slept, given, uriVars,
                   selVars>>

\* if let Some(delay) = actions.delay { sleep(delay).await }
ReqDelay ==
    /\ target = "request" /\ pc = "delay"
    /\ IF IsSome(actions.delay)
       THEN /\ pc' = "sleeping"
            /\ slept' = Some([request |-> request, response |-> response])
            /\ steps' = Log("delay", TRUE)
       ELSE /\ pc' = After(RequestOrder, "delay")
            /\ UNCHANGED <<slept, steps>>
    /\ UNCHANGED <<target, actions, request, response, result, given, uriVars,
                   selVars>>

\* --- apply_response_action

RespStart ==
    /\ target = "response" /\ pc = "start"
    /\ IF AbortRequested(actions)
       THEN pc' = "done" /\ result' = "abort"
       ELSE pc' = ResponseOrder[1] /\ result' = result
    /\ UNCHANGED <<target, actions, request, response, steps, slept, given,
                   uriVars, selVars>>

RespAppendHeaders ==
    /\ target = "response" /\ pc = "append_headers"
    /\ IF IsSome(actions.append) /\ IsSome(Unwrap(actions.append).headers)
       THEN /\ response' = [response EXCEPT !.headers =
                   AppendAll(@, Unwrap(Unwrap(actions.append).headers))]
            /\ steps' = Log("append_headers", TRUE)
       ELSE UNCHANGED <<response, steps>>
    /\ pc' = After(ResponseOrder, "append_headers")
    /\ UNCHANGED <<target, actions, request, result, slept, given, uriVars,
                   selVars>>

RespReplaceCode ==
    /\ target = "response" /\ pc = "replace_code"
    /\ IF IsSome(actions.replace) /\ IsSome(Unwrap(actions.replace).code)
       THEN /\ response' = [response EXCEPT !.status =
                   Unwrap(Unwrap(actions.replace).code)]
            /\ steps' = Log("replace_code", TRUE)
       ELSE UNCHANGED <<response, steps>>
    /\ pc' = After(ResponseOrder, "replace_code")
    /\ UNCHANGED <<target, actions, request, result, slept, given, uriVars,
                   selVars>>

RespReplaceBody ==
    /\ target = "response" /\ pc = "replace_body"
    /\ IF IsSome(actions.replace) /\ IsSome(Unwrap(actions.replace).body)
       THEN /\ response' = [response EXCEPT !.body =
                   Unwrap(Unwrap(actions.replace).body)]
            /\ steps' = Log("replace_body", TRUE)
       ELSE UNCHANGED <<response, steps>>
    /\ pc' = After(ResponseOrder, "replace_body")
    /\ UNCHANGED <<target, actions, request, result, slept, given, uriVars,
                   selVars>>

RespReplaceHeaders ==
    /\ target = "response" /\ pc = "replace_headers"
    /\ IF IsSome(actions.replace) /\ IsSome(Unwrap(actions.replace).headers)
       THEN /\ response' = [response EXCEPT !.headers =
                   InsertAll(@, Unwrap(Unwrap(actions.replace).headers))]
            /\ steps' = Log("replace_headers", TRUE)
       ELSE UNCHANGED <<response, steps>>
    /\ pc' = After(ResponseOrder, "replace_headers")
    /\ UNCHANGED <<target, actions, request, result, slept, given, uriVars,
                   selVars>>

RespDelay ==
    /\ target = "response" /\ pc = "delay"
    /\ IF IsSome(actions.delay)
       THEN /\ pc' = "sleeping"
            /\ slept' = Some([request |-> request, response |-> response])
            /\ steps' = Log("delay", TRUE)
       ELSE /\ pc' = After(ResponseOrder, "delay")
            /\ UNCHANGED <<slept, steps>>
    /\ UNCHANGED <<target, actions, request, response, result, given, uriVars,
                   selVars>>

\* --- both functions

\* The timer fires and the function goes on after the .await.
Wake ==
    /\ pc = "sleeping"
    /\ pc' = After(IF target = "request" THEN RequestOrder ELSE ResponseOrder,
                   "delay")
    /\ UNCHANGED <<target, actions, request, response, steps, result, slept,
                   given, uriVars, selVars>>

\* The caller drops the future while it is suspended in sleep(delay).await.
Cancel ==
    /\ pc = "sleeping"
    /\ pc' = "done"
    /\ result' = "cancelled"
    /\ UNCHANGED <<target, actions, request, response, steps, slept, given,
                   uriVars, selVars>>

\* debug!(...); Ok(request) / Ok(response)
Return ==
    /\ pc = "return"
    /\ pc' = "done"
    /\ result' = "ok"
    /\ UNCHANGED <<target, actions, request, response, steps, slept, given,
                   uriVars, selVars>>

Next ==
    \/ ReqStart \/ ReqAppendQueries \/ ReqAppendHeaders \/ ReqReplacePath
    \/ ReqReplaceMethod \/ ReqReplaceBody \/ ReqReplaceQueries
    \/ ReqReplaceHeaders \/ ReqDelay
    \/ RespStart \/ RespAppendHeaders \/ RespReplaceCode \/ RespReplaceBody
    \/ RespReplaceHeaders \/ RespDelay
    \/ Wake \/ Cancel \/ Return

Spec == Init /\ [][Next]_vars

\* ------------------------------------------------------------------------
\* SpecSel: select_request and select_response on one selector and exchange

\* A header selector that holds only when every occurrence has the value.
HeaderFieldsHoldForAll(fields, headers) ==
    \A i \in 1..Len(fields) :
        LET all == GetAll(headers, fields[i][1]) IN
        /\ all # <<>>
        /\ \A j \in 1..Len(all) : all[j] = fields[i][2]

\* fields.iter().all(|(header, value)|
\*     headers.get_all(header).iter().any(|f| f == value))
HeaderFieldsHold(fields, headers) ==
    \A i \in 1..Len(fields) :
        LET all == GetAll(headers, fields[i][1]) IN
        \E j \in 1..Len(all) : all[j] = fields[i][2]

\* fn select_request(port, request, selector)
SelectRequest(port, req, selector) ==
    /\ IsSome(selector.port) => port = Unwrap(selector.port)
    /\ IsSome(selector.path) =>
           IsPrefix(PaqPath(Unwrap(selector.path)), UriPath(req.uri))
    /\ IsSome(selector.method) => req.method = Unwrap(selector.method)
    /\ IsSome(selector.headers) =>
           HeaderFieldsHold(Unwrap(selector.headers), req.headers)

\* fn select_response(port, uri, method, request_headers, response, selector)
SelectResponse(port, u, method, request_headers, resp, selector) ==
    /\ IsSome(selector.port) => port = Unwrap(selector.port)
    /\ IsSome(selector.path) => IsPrefix(PaqPath(Unwrap(selector.path)), UriPath(u))
    /\ IsSome(selector.method) => method = Unwrap(selector.method)
    /\ IsSome(selector.code) => resp.status = Unwrap(selector.code)
    /\ IsSome(selector.headers) =>
           HeaderFieldsHold(Unwrap(selector.headers), request_headers)
    /\ IsSome(selector.response_headers) =>
           HeaderFieldsHold(Unwrap(selector.response_headers), resp.headers)

NoSelector ==
    [port |-> None, path |-> None, method |-> None, headers |-> None,
     code |-> None, response_headers |-> None]

\* A selector path is a PathAndQuery the configuration parsed.
SelectorPath(s) == ParsePaq(s).paq

Exchange0 ==
    [port |-> 80,
     request |-> [Request0 EXCEPT
                     !.uri = OriginForm(<<"/", "a", "/", "b", "?", "q">>),
                     !.headers = << <<"x", "1">>, <<"x", "2">>, <<"y", "1">> >>],
     response |-> [Response0 EXCEPT !.headers = << <<"x", "2">> >>]]

\* Selectors in which each field is absent, holds on Exchange0, or fails.
FieldSelectors ==
    [port : {None, Some(80), Some(81)},
     path : {None, Some(SelectorPath(<<"/", "a">>)), Some(SelectorPath(<<"/", "b">>))},
     method : {None, Some("GET"), Some("POST")},
     headers : {None, Some(<< <<"x", "2">> >>), Some(<< <<"y", "2">> >>)},
     code : {None, Some(200), Some(404)},
     response_headers : {None, Some(<< <<"x", "2">> >>), Some(<< <<"x", "1">> >>)}]

PathSelectors ==
    {[NoSelector EXCEPT !.path = Some(SelectorPath(s))] :
        s \in { <<>>, <<"/">>, <<"/", "a">>, <<"/", "a", "?", "x">>,
                <<"/", "a", "b">>, <<"/", "a", "/", "b", "/", "c">> }}

PathExchanges ==
    {[Exchange0 EXCEPT !.request.uri = u] :
        u \in { OriginForm(<<"/", "a">>),
                OriginForm(<<"/", "a", "/", "b", "?", "q">>),
                OriginForm(<<"/", "a", "b">>),
                OriginForm(<<"/", "b", "?", "/", "a">>),
                MkUri(<<>>, <<"h">>, EmptyPaq),
                MkUri(<<"h", "t", "t", "p">>, <<"h">>, EmptyPaq) }}

HeaderSelectors ==
    {[NoSelector EXCEPT !.headers = Some(h)] : h \in HeaderMaps(MaxHdr)}
    \cup {[NoSelector EXCEPT !.response_headers = Some(h)] : h \in HeaderMaps(MaxHdr)}

HeaderExchanges ==
    {[Exchange0 EXCEPT !.request.headers = h, !.response.headers = h] :
        h \in HeaderInputs}

SelectorCalls ==
    {<<f, Exchange0>> : f \in FieldSelectors}
    \cup (PathSelectors \X PathExchanges)
    \cup (HeaderSelectors \X HeaderExchanges)

InitSel ==
    /\ \E c \in SelectorCalls : sel = [selector |-> c[1], exchange |-> c[2]]
    /\ matched = <<>>
    /\ IdleUri
    /\ IdleApply

CallSelectRequest ==
    /\ matched = <<>>
    /\ matched' = <<"select_request",
                    SelectRequest(sel.exchange.port, sel.exchange.request,
                                  sel.selector)>>
    /\ UNCHANGED <<sel, uriVars, applyVars>>

\* The uri, method and headers are those of the request of the exchange.
CallSelectResponse ==
    /\ matched = <<>>
    /\ matched' = <<"select_response",
                    SelectResponse(sel.exchange.port, sel.exchange.request.uri,
                                   sel.exchange.request.method,
                                   sel.exchange.request.headers,
                                   sel.exchange.response, sel.selector)>>
    /\ UNCHANGED <<sel, uriVars, applyVars>>

NextSel == CallSelectRequest \/ CallSelectResponse

SpecSel == InitSel /\ [][NextSel]_vars

\* ------------------------------------------------------------------------
\* Properties of the selector matcher, checked under SpecSel

\* The values header n carries in h.
ValueSet(h, n) == {h[i][2] : i \in {j \in 1..Len(h) : h[j][1] = n}}

\* Every listed (name, value) is the value of some occurrence of name.
Listed(fields, h) ==
    \A e \in {fields[i] : i \in 1..Len(fields)} : e[2] \in ValueSet(h, e[1])

StartsWith(s, p) == \E k \in 0..Len(s) : SubSeq(s, 1, k) = p

PortHolds == sel.exchange.port = Unwrap(sel.selector.port)

PathHolds ==
    StartsWith(UriPath(sel.exchange.request.uri), PaqPath(Unwrap(sel.selector.path)))

MethodHolds == sel.exchange.request.method = Unwrap(sel.selector.method)

HeadersHold == Listed(Unwrap(sel.selector.headers), sel.exchange.request.headers)

CodeHolds == sel.exchange.response.status = Unwrap(sel.selector.code)

ResponseHeadersHold ==
    Listed(Unwrap(sel.selector.response_headers), sel.exchange.response.headers)

Absent(f) == sel.selector[f] = None

\* C3: select_request is true exactly when each of port, path, method and
\* headers is absent or holds; select_response exactly when each of these
\* and of code and response_headers is absent or holds.
C3_SelectIffPresentFieldsHold ==
    matched # <<>> =>
        LET requestSide ==
                /\ Absent("port") \/ PortHolds
                /\ Absent("path") \/ PathHolds
                /\ Absent("method") \/ MethodHolds
                /\ Absent("headers") \/ HeadersHold
            responseSide ==
                /\ Absent("code") \/ CodeHolds
                /\ Absent("response_headers") \/ ResponseHeadersHold
        IN IF matched[1] = "select_request"
           THEN matched[2] = requestSide
           ELSE matched[2] = (requestSide /\ responseSide)

\* select_response matching a selector whose six fields are present, on a
\* request that carries the listed header twice with different values.
C3_Witness ==
    /\ matched = <<"select_response", TRUE>>
    /\ \A f \in DOMAIN sel.selector : ~Absent(f)
    /\ \E i \in 1..Len(Unwrap(sel.selector.headers)) :
          Cardinality(ValueSet(sel.exchange.request.headers,
                               Unwrap(sel.selector.headers)[i][1])) = 2

\* ------------------------------------------------------------------------
\* Properties of the action applicator, checked under Spec

\* The order of the steps as section 4.3 of the specification gives it.
StatedRequestOrder ==
    <<"append_queries", "append_headers", "replace_path", "replace_method",
      "replace_body", "replace_queries", "replace_headers", "delay">>

StatedResponseOrder ==
    <<"append_headers", "replace_code", "replace_body", "replace_headers", "delay">>

StatedOrder ==
    IF target = "request" THEN StatedRequestOrder ELSE StatedResponseOrder

Position(order, name) ==
    IF \E i \in 1..Len(order) : order[i] = name
    THEN CHOOSE i \in 1..Len(order) : order[i] = name
    ELSE 0

AppendField(f) == IsSome(actions.append) /\ IsSome(Unwrap(actions.append)[f])
ReplaceField(f) == IsSome(actions.replace) /\ IsSome(Unwrap(actions.replace)[f])

\* Whether the field that step name applies is present in actions.
FieldPresent(name) ==
    CASE name = "append_queries" -> AppendField("queries")
      [] name = "append_headers" -> AppendField("headers")
      [] name = "replace_path" -> ReplaceField("path")
      [] name = "replace_method" -> ReplaceField("method")
      [] name = "replace_body" -> ReplaceField("body")
      [] name = "replace_code" -> ReplaceField("code")
      [] name = "replace_queries" -> ReplaceField("queries")
      [] name = "replace_headers" -> ReplaceField("headers")
      [] name = "delay" -> IsSome(actions.delay)
      [] OTHER -> FALSE

Logged(name) == \E i \in 1..Len(steps) : steps[i][1] = name

Current == [request |-> request, response |-> response]

Finished == pc = "done" /\ result # "cancelled"

\* C1: with actions.abort the call returns the Abort failure at once: no
\* step runs, no delay starts and the request/response is not touched,
\* whatever delay, append and replace hold.
C1_AbortShortCircuits ==
    actions.abort =>
        /\ pc \in {"start", "done"}
        /\ pc = "done" => result = "abort"
        /\ steps = <<>>
        /\ slept = None
        /\ Current = given

\* An aborted call whose Actions also held a delay, an append and a replace.
C1_Witness ==
    /\ pc = "done"
    /\ result = "abort"
    /\ actions.abort
    /\ IsSome(actions.delay)
    /\ IsSome(actions.append)
    /\ IsSome(actions.replace)

\* C2: the steps run in the stated order, each at most once and only when
\* its field is present; a call that returns Ok has run every step whose
\* field is present; and the delay starts after every mutation, so that the
\* request/response stays as it was when the delay began.
C2_StepsInOrder ==
    /\ \A i \in 1..Len(steps) :
          /\ Position(StatedOrder, steps[i][1]) > 0
          /\ FieldPresent(steps[i][1])
    /\ \A i, j \in 1..Len(steps) :
          i < j => Position(StatedOrder, steps[i][1]) < Position(StatedOrder, steps[j][1])
    /\ (pc = "done" /\ result = "ok") =>
          \A k \in 1..Len(StatedOrder) :
              FieldPresent(StatedOrder[k]) => Logged(StatedOrder[k])
    /\ IsSome(slept) =>
          /\ Current = Unwrap(slept)
          /\ \A k \in 1..Len(StatedOrder) :
                FieldPresent(StatedOrder[k]) => Logged(StatedOrder[k])

\* apply_request_action suspended in its delay after all seven mutations.
C2_Witness ==
    /\ target = "request"
    /\ pc = "sleeping"
    /\ Len(steps) = 8
    /\ request # given.request

\* The values of header n in h, in order.
Occurrences(h, n) ==
    LET es == SelectSeq(h, LAMBDA e : e[1] = n) IN
    [i \in 1..Len(es) |-> es[i][2]]

HeadersOf(x) == IF target = "request" THEN x.request.headers ELSE x.response.headers

AppendedHeaders ==
    IF AppendField("headers") THEN Unwrap(Unwrap(actions.append).headers) ELSE <<>>

ReplacedHeaders ==
    IF ReplaceField("headers") THEN Unwrap(Unwrap(actions.replace).headers) ELSE <<>>

\* C7: after the append step every header has its old occurrences followed
\* by one occurrence per append.headers entry; at the end a header named in
\* replace.headers has one value, the last one replace.headers lists for it,
\* and every other header still has its old and its appended occurrences.
C7_HeadersAppendThenReplace ==
    /\ (~actions.abort /\ pc = (IF target = "request" THEN "replace_path"
                                ELSE "replace_code")) =>
          \A n \in HeaderNames :
              Occurrences(HeadersOf(Current), n) =
                  Occurrences(HeadersOf(given), n) \o Occurrences(AppendedHeaders, n)
    /\ (pc = "done" /\ result = "ok") =>
          \A n \in HeaderNames :
              LET r == Occurrences(ReplacedHeaders, n) IN
              Occurrences(HeadersOf(Current), n) =
                  IF r # <<>> THEN <<r[Len(r)]>>
                  ELSE Occurrences(HeadersOf(given), n)
                       \o Occurrences(AppendedHeaders, n)

\* A returned call that appended to two headers the object already had and
\* overwrote one of them, for which replace.headers listed two values.
C7_Witness ==
    /\ pc = "done"
    /\ result = "ok"
    /\ \E n, m \in HeaderNames :
          /\ n # m
          /\ Len(Occurrences(ReplacedHeaders, n)) = 2
          /\ Occurrences(ReplacedHeaders, m) = <<>>
          /\ Occurrences(AppendedHeaders, n) # <<>>
          /\ Occurrences(AppendedHeaders, m) # <<>>
          /\ Len(Occurrences(HeadersOf(given), n)) = 2
          /\ Occurrences(HeadersOf(given), m) # <<>>

\* C9 as stated: a call fails only when actions.abort is true, and with
\* abort false it returns the request/response.
C9_OnlyAbortFails ==
    Finished => result = (IF actions.abort THEN "abort" ELSE "ok")

\* C9, amended: apply_response_action fails only with Abort.
\* apply_request_action fails with Abort when actions.abort is true and
\* otherwise exactly when one of its rewrite calls (append_queries,
\* replace_path, replace_queries) fails: that call is the last step made and
\* its error is returned.  In every other case the call returns Ok.
C9_AbortOrInvalidUri ==
    Finished =>
        IF actions.abort THEN result = "abort"
        ELSE IF \E i \in 1..Len(steps) : ~steps[i][2]
        THEN /\ result = "invalid_uri"
             /\ target = "request"
             /\ \A i \in 1..Len(steps) : ~steps[i][2] => i = Len(steps)
             /\ steps[Len(steps)][1] \in {"append_queries", "replace_path",
                                          "replace_queries"}
        ELSE result = "ok"

\* apply_request_action returning a rewrite error although abort is false.
C9_Witness ==
    /\ pc = "done"
    /\ target = "request"
    /\ ~actions.abort
    /\ result = "invalid_uri"

\* ------------------------------------------------------------------------
\* Properties of the URI rewriter, checked under SpecUri

\* PathAndQuery::as_str()
PaqStr(p) == IF p.data = <<>> THEN <<"/">> ELSE p.data

QueryStr(u) == IF IsSome(UriQuery(u)) THEN Unwrap(UriQuery(u)) ELSE <<>>

\* The decoded (key, value) pairs of a uri's query, in order.
QueryPairs(u) == FormParse(QueryStr(u))

KeysOf(pairs) == {pairs[i][1] : i \in 1..Len(pairs)}

LastValue(pairs, k) ==
    LET i == CHOOSE i \in 1..Len(pairs) :
                 pairs[i][1] = k /\ \A j \in (i + 1)..Len(pairs) : pairs[j][1] # k
    IN pairs[i][2]

\* The old query decoded, last occurrence of a key winning, overridden by qs.
ExpectedMap(u, qs) ==
    LET pairs == QueryPairs(u) IN
    [k \in KeysOf(pairs) \cup DOMAIN qs |->
        IF k \in DOMAIN qs THEN qs[k] ELSE LastValue(pairs, k)]

\* The distinct keys of pairs, in order of first occurrence.
RECURSIVE FirstKeys(_, _)
FirstKeys(pairs, seen) ==
    IF pairs = <<>> THEN <<>>
    ELSE IF pairs[1][1] \in seen THEN FirstKeys(Tail(pairs), seen)
    ELSE <<pairs[1][1]>> \o FirstKeys(Tail(pairs), seen \cup {pairs[1][1]})

\* key=value&key=value for the keys in order o, form-urlencoded.
RECURSIVE JoinPairs(_, _)
JoinPairs(m, o) ==
    IF Len(o) = 0 THEN <<>>
    ELSE Encode(o[1]) \o <<"=">> \o Encode(m[o[1]])
         \o (IF Len(o) > 1 THEN <<"&">> \o JoinPairs(m, SubSeq(o, 2, Len(o)))
             ELSE <<>>)

AppendCalled == last.op = "append_queries"
ReplacePathCalled == last.op = "replace_path"
ReplaceQueriesCalled == last.op = "replace_queries"

\* C4: append_queries is the identity for an absent or empty fragment, and
\* for a non-empty fragment that succeeds the new path-and-query is the old
\* one followed by "&" + fragment (a query existed) or "?" + fragment.
C4_AppendQueriesConcatenates ==
    AppendCalled =>
        /\ (~IsSome(last.frag) \/ last.frag = Some(<<>>))
               => (last.ok /\ uri = last.before)
        /\ (IsSome(last.frag) /\ last.frag # Some(<<>>) /\ last.ok)
               => PaqStr(uri.paq) =
                      PaqStr(last.before.paq)
                      \o (IF IsSome(UriQuery(last.before)) THEN <<"&">> ELSE <<"?">>)
                      \o Unwrap(last.frag)

\* C5: replace_queries is the identity without overrides; with overrides,
\* when it succeeds, the path is unchanged and the new query decodes to each
\* key exactly once: the override value for a key of overrides, the last old
\* value for every other old key, and no other key.
C5_ReplaceQueriesMerges ==
    ReplaceQueriesCalled =>
        /\ ~IsSome(last.queries) => (last.ok /\ uri = last.before)
        /\ (IsSome(last.queries) /\ last.ok) =>
               LET pairs == QueryPairs(uri)
                   exp == ExpectedMap(last.before, Unwrap(last.queries))
               IN /\ UriPath(uri) = UriPath(last.before)
                  /\ \A i, j \in 1..Len(pairs) : i # j => pairs[i][1] # pairs[j][1]
                  /\ KeysOf(pairs) = DOMAIN exp
                  /\ \A i \in 1..Len(pairs) : pairs[i][2] = exp[pairs[i][1]]

\* A successful replace_queries that overrides a key the old query held
\* twice and keeps another old key.
C5_Witness ==
    /\ ReplaceQueriesCalled
    /\ IsSome(last.queries)
    /\ last.ok
    /\ LET old == QueryPairs(last.before) IN
       /\ \E i, j \in 1..Len(old) :
              i # j /\ old[i][1] = old[j][1] /\ old[i][1] \in DOMAIN Unwrap(last.queries)
    /\ \E k \in KeysOf(QueryPairs(uri)) : k \notin DOMAIN Unwrap(last.queries)

\* C6: replace_path is the identity without a new path; with one, a uri
\* that has a path-and-query gets the new path ("" being "/") and keeps its
\* query string as it was, and a uri without path-and-query is unchanged.
C6_ReplacePathKeepsQuery ==
    ReplacePathCalled =>
        /\ ~IsSome(last.path) => (last.ok /\ uri = last.before)
        /\ (IsSome(last.path) /\ HasPath(last.before) /\ last.ok) =>
               /\ UriPath(uri) = (IF Unwrap(last.path) = <<>> THEN <<"/">>
                                  ELSE Unwrap(last.path))
               /\ UriQuery(uri) = UriQuery(last.before)
        /\ (IsSome(last.path) /\ ~HasPath(last.before))
               => (last.ok /\ uri = last.before)

\* C8: a rewrite call that fails leaves the uri exactly as it was, and a
\* fragment with a byte no URI can hold (a space) makes append_queries fail.
C8_RewriteAllOrNothing ==
    /\ (last.op # "none" /\ ~last.ok) => uri = last.before
    /\ (AppendCalled /\ IsSome(last.frag)
        /\ \E i \in 1..Len(Unwrap(last.frag)) :
              /\ Unwrap(last.frag)[i] = " "
              /\ \A j \in 1..(i - 1) : Unwrap(last.frag)[j] # "#")
           => ~last.ok

\* A failed append_queries on a uri that has a path and a query.
C8_Witness ==
    /\ AppendCalled
    /\ ~last.ok
    /\ IsSome(UriQuery(last.before))

\* C10 as stated: the new query holds the keys of the old query first, in
\* their order, then the keys the overrides introduce.
C10_InsertionOrder ==
    (ReplaceQueriesCalled /\ IsSome(last.queries) /\ last.ok) =>
        LET exp == ExpectedMap(last.before, Unwrap(last.queries))
            old == FirstKeys(QueryPairs(last.before), {})
        IN \E o \in IterOrders(exp) :
               /\ \A i \in 1..Len(old) : o[i] = old[i]
               /\ QueryStr(uri) = JoinPairs(exp, o)

\* C10, amended: the new query is the form-urlencoding of the merged pairs,
\* each key once, in some order of the keys; the order is not determined.
C10_SomeOrder ==
    (ReplaceQueriesCalled /\ IsSome(last.queries) /\ last.ok) =>
        LET exp == ExpectedMap(last.before, Unwrap(last.queries)) IN
        \E o \in IterOrders(exp) : QueryStr(uri) = JoinPairs(exp, o)

\* A successful replace_queries whose new query is not in insertion order.
C10_Witness ==
    /\ ReplaceQueriesCalled
    /\ IsSome(last.queries)
    /\ last.ok
    /\ Len(QueryPairs(uri)) >= 2
    /\ ~C10_InsertionOrder

====
